---- MODULE Spec2Model ----
(***************************************************************************)
(* Preprocessor of the toxic-comment classification pipeline               *)
(* (src/toxic_comment_classification/module/preprocessor.py).              *)
(*                                                                         *)
(* A Python str is a sequence of one-character strings, a token is such a  *)
(* sequence, a sentence is a sequence of tokens.  A Python dict that is    *)
(* iterated in insertion order is a record [keys, val]; a dict that is     *)
(* only looked up is a function.  Three state machines share the module:   *)
(*   SpecClean  clean_text on one raw text,                                *)
(*   SpecLoad   load_vectors reading an embedding file line by line,       *)
(*   Spec       Preprocessor.process on the loaded splits.                 *)
(***************************************************************************)
EXTENDS Integers, Sequences, FiniteSets, TLC

VARIABLES pc, config, train_x, validate_x, test_x,
          word2ind, ind2word, embedding_matrix,
          train_x_ids, validate_x_ids, test_x_ids,
          vectorizer, vectorized_train_x, vectorized_validate_x, vectorized_test_x,
          ret,
          text, clean_words,
          fname, fin, data

vars == <<pc, config, train_x, validate_x, test_x,
          word2ind, ind2word, embedding_matrix,
          train_x_ids, validate_x_ids, test_x_ids,
          vectorizer, vectorized_train_x, vectorized_validate_x, vectorized_test_x,
          ret, text, clean_words, fname, fin, data>>

(***************************************************************************)
(* Bounds of the model.                                                    *)
(***************************************************************************)
\* longest raw text given to clean_text
MaxTextLen == 3
\* longest line of an embedding file read by load_vectors alone
MaxLineLen == 3
\* most lines of an embedding file read by load_vectors alone
MaxFileLines == 2
\* most tokens in train_x, validate_x and test_x together
MaxTokens == 3
\* largest config['maxlen']
MaxSeqLen == 2
\* config['embedding_dim']
EmbeddingDim == 1
\* config['batch_size']
BatchSize == 2

(***************************************************************************)
(* Strings.                                                                *)
(***************************************************************************)
Range(s) == {s[i] : i \in DOMAIN s}

SeqsUpTo(S, n) == UNION {[1..k -> S] : k \in 0..n}

\* the characters of the model in code-point order
CodeOrder == <<"\n", " ", "!", "1", "2", "<", ">", "B", "_",
               "a", "b", "d", "k", "n", "p", "u">>

Ord(c) == CHOOSE i \in DOMAIN CodeOrder : CodeOrder[i] = c

\* Python's str < str: lexicographic by code point
RECURSIVE StrLess(_, _)
StrLess(s, t) ==
    IF t = <<>> THEN FALSE
    ELSE IF s = <<>> THEN TRUE
    ELSE IF Head(s) = Head(t) THEN StrLess(Tail(s), Tail(t))
    ELSE Ord(Head(s)) < Ord(Head(t))

IsSpace(c) == c \in {" ", "\n"}

\* \w of the re module: letters, digits and the underscore
IsWordChar(c) == c \in {"1", "2", "B", "_", "a", "b", "d", "k", "n", "p", "u"}

\* string.punctuation, as far as the model's characters go
Punctuation == {"!", "<", ">", "_"}

RECURSIVE LStrip(_)
LStrip(s) == IF s # <<>> /\ IsSpace(Head(s)) THEN LStrip(Tail(s)) ELSE s

RECURSIVE RStrip(_)
RStrip(s) ==
    IF s # <<>> /\ IsSpace(s[Len(s)]) THEN RStrip(SubSeq(s, 1, Len(s) - 1)) ELSE s

Strip(s) == RStrip(LStrip(s))

LowerChar(c) == IF c = "B" THEN "b" ELSE c

Lower(s) == [i \in DOMAIN s |-> LowerChar(s[i])]

\* str.replace(c, ''), str.translate of a deletion table: drop the characters of D
RECURSIVE Delete(_, _)
Delete(s, D) ==
    IF s = <<>> THEN <<>>
    ELSE IF Head(s) \in D THEN Delete(Tail(s), D)
    ELSE <<Head(s)>> \o Delete(Tail(s), D)

\* str.split(' '): a field between every two spaces, the empty ones kept
RECURSIVE SplitSpace(_)
SplitSpace(s) ==
    IF s = <<>> THEN << <<>> >>
    ELSE LET rest == SplitSpace(Tail(s))
         IN  IF Head(s) = " " THEN << <<>> >> \o rest
             ELSE << <<Head(s)>> \o Head(rest) >> \o Tail(rest)

RECURSIVE SkipNonWord(_)
SkipNonWord(s) ==
    IF s # <<>> /\ ~IsWordChar(Head(s)) THEN SkipNonWord(Tail(s)) ELSE s

\* re.split(r'\W+', s): a field between every two runs of non-word characters;
\* a run at either end leaves an empty field there
RECURSIVE ReSplit(_)
ReSplit(s) ==
    IF s = <<>> THEN << <<>> >>
    ELSE IF ~IsWordChar(Head(s)) THEN << <<>> >> \o ReSplit(SkipNonWord(s))
    ELSE LET rest == ReSplit(Tail(s))
         IN  << <<Head(s)>> \o Head(rest) >> \o Tail(rest)

\* [w.translate(filter_table) for w in words if len(w.translate(filter_table))]
RECURSIVE FilterPunctuation(_)
FilterPunctuation(words) ==
    IF words = <<>> THEN <<>>
    ELSE LET w == Delete(Head(words), Punctuation)
         IN  (IF w = <<>> THEN <<>> ELSE <<w>>) \o FilterPunctuation(Tail(words))

\* Preprocessor.clean_text
clean_text(t) ==
    FilterPunctuation(ReSplit(Delete(Lower(Strip(t)), {"\n"})))

(***************************************************************************)
(* Python dicts.                                                           *)
(***************************************************************************)
EmptyFun == [x \in {} |-> 0]

EmptyDict == [keys |-> <<>>, val |-> EmptyFun]

\* d[k] = v: a new key goes last, an old key keeps its place
DictSet(d, k, v) ==
    [keys |-> IF k \in DOMAIN d.val THEN d.keys ELSE Append(d.keys, k),
     val  |-> [x \in DOMAIN d.val \cup {k} |-> IF x = k THEN v ELSE d.val[x]]]

\* d.get(k, default)
Get(d, k, default) == IF k \in DOMAIN d THEN d[k] ELSE default

(***************************************************************************)
(* load_vectors.                                                           *)
(***************************************************************************)
Digits == {"1", "2"}

\* float(tok) raises ValueError unless tok is a number
IsFloat(tok) == tok # <<>> /\ \A i \in DOMAIN tok : tok[i] \in Digits

DigitVal(c) == IF c = "1" THEN 1 ELSE 2

RECURSIVE FloatOf(_)
FloatOf(tok) ==
    IF tok = <<>> THEN 0
    ELSE 10 * FloatOf(SubSeq(tok, 1, Len(tok) - 1)) + DigitVal(tok[Len(tok)])

\* the body of the loop: tokens = line.rstrip().split(' ');
\* data[tokens[0]] = np.array(list(map(float, tokens[1:])))
LineTokens(line) == SplitSpace(RStrip(line))

LineParses(line) ==
    \A i \in 2..Len(LineTokens(line)) : IsFloat(LineTokens(line)[i])

LineVector(line) ==
    [i \in 1..(Len(LineTokens(line)) - 1) |-> FloatOf(LineTokens(line)[i + 1])]

LoadLine(d, line) == DictSet(d, LineTokens(line)[1], LineVector(line))

\* an embedding file: present or not, and its lines without their '\n'
MissingFile == [exists |-> FALSE, lines |-> <<>>]

File(ls) == [exists |-> TRUE, lines |-> ls]

FileChars == {"a", "1", " "}

Lines == SeqsUpTo(FileChars, MaxLineLen)

Files == {MissingFile} \cup {File(ls) : ls \in SeqsUpTo(Lines, MaxFileLines)}

\* load_vectors as one call: [ok, keys, val]; ok is FALSE when open or float raised
RECURSIVE LoadLines(_, _)
LoadLines(d, ls) ==
    IF ls = <<>> THEN [ok |-> TRUE, keys |-> d.keys, val |-> d.val]
    ELSE IF ~LineParses(Head(ls)) THEN [ok |-> FALSE, keys |-> <<>>, val |-> EmptyFun]
    ELSE LoadLines(LoadLine(d, Head(ls)), Tail(ls))

load_vectors(f) ==
    IF ~f.exists THEN [ok |-> FALSE, keys |-> <<>>, val |-> EmptyFun]
    ELSE LoadLines(EmptyDict, f.lines)

(***************************************************************************)
(* The inputs of process: the splits made by _load_data and the config.    *)
(***************************************************************************)
PAD == <<"<", "p", "a", "d", ">">>

UNK == <<"<", "u", "n", "k", ">">>

specialtokens == <<PAD, UNK>>

\* tokens clean_text can produce
Words == {<<"a">>, <<"b">>}

TokenStreams == SeqsUpTo(Words, MaxTokens)

Cut(t, i, j) == SubSeq(t, i + 1, j)

Cuts(t) ==
    {c \in (0..Len(t)) \X (0..Len(t)) \X (0..Len(t)) : c[1] <= c[2] /\ c[2] <= c[3]}

\* two training sentences (or one), one validation and one test sentence
Corpus(t, c, two) ==
    [train_x    |-> IF two THEN <<Cut(t, 0, c[1]), Cut(t, c[1], c[2])>>
                    ELSE <<Cut(t, 0, c[2])>>,
     validate_x |-> <<Cut(t, c[2], c[3])>>,
     test_x     |-> <<Cut(t, c[3], Len(t))>>]

Corpora ==
    UNION {{Corpus(t, c, two) : c \in Cuts(t), two \in BOOLEAN} : t \in TokenStreams}

Str(w, n) == w \o <<" ">> \o n

PretrainedFiles ==
    {File(<<Str(<<"a">>, <<"1">>), Str(<<"b">>, <<"2">>)>>),
     File(<<Str(<<"a">>, <<"1">>), Str(<<"a">>, <<"2">>)>>),
     File(<<Str(UNK, <<"1">>), Str(<<"a">>, <<"1">>)>>),
     File(<<Str(<<"b">>, <<"2">>), Str(PAD, <<"2">>)>>),
     File(<<<<"a">>>>),
     MissingFile}

NoPretrained == [set |-> FALSE, file |-> MissingFile]

Pretrained(f) == [set |-> TRUE, file |-> f]

Convertors ==
    {"count_vectorization", "tfidf_vectorization", "nn_vectorization", "tf_dataset"}

\* maxlen and pretrained_embedding are read by nn_vectorization alone
Configs ==
    {[input_convertor |-> "nn_vectorization", maxlen |-> m, pretrained_embedding |-> p] :
        m \in 1..MaxSeqLen, p \in {NoPretrained} \cup {Pretrained(f) : f \in PretrainedFiles}}
    \cup
    {[input_convertor |-> c, maxlen |-> MaxSeqLen, pretrained_embedding |-> NoPretrained] :
        c \in Convertors \ {"nn_vectorization"}}

NoVectorizer == [kind |-> "none", vocabulary_ |-> EmptyFun, idf_ |-> <<>>]

NoReturn == [kind |-> "none", features |-> <<>>]

\* the variables of one state machine while another one runs
IdleProcess ==
    /\ config = [input_convertor |-> "none", maxlen |-> 0,
                 pretrained_embedding |-> NoPretrained]
    /\ train_x = <<>> /\ validate_x = <<>> /\ test_x = <<>>
    /\ word2ind = EmptyFun /\ ind2word = EmptyFun /\ embedding_matrix = EmptyFun
    /\ train_x_ids = <<>> /\ validate_x_ids = <<>> /\ test_x_ids = <<>>
    /\ vectorizer = NoVectorizer
    /\ vectorized_train_x = <<>> /\ vectorized_validate_x = <<>>
    /\ vectorized_test_x = <<>>
    /\ ret = NoReturn

IdleClean == text = <<>> /\ clean_words = <<>>

IdleLoad == fname = MissingFile /\ fin = <<>> /\ data = EmptyDict

processVars == <<config, train_x, validate_x, test_x, word2ind, ind2word,
                 embedding_matrix, train_x_ids, validate_x_ids, test_x_ids,
                 vectorizer, vectorized_train_x, vectorized_validate_x,
                 vectorized_test_x, ret>>

inputVars == <<config, train_x, validate_x, test_x>>

vocabVars == <<word2ind, ind2word, embedding_matrix>>

idsVars == <<train_x_ids, validate_x_ids, test_x_ids>>

sklearnVars == <<vectorizer, vectorized_train_x, vectorized_validate_x,
                 vectorized_test_x>>

otherVars == <<text, clean_words, fname, fin, data>>

(***************************************************************************)
(* clean_text on one text.                                                 *)
(***************************************************************************)
TextChars == {"a", "B", " ", "\n", "!", "_"}

InitClean ==
    /\ pc = "clean_text"
    /\ text \in SeqsUpTo(TextChars, MaxTextLen)
    /\ clean_words = <<>>
    /\ IdleProcess /\ IdleLoad

CleanText ==
    /\ pc = "clean_text"
    /\ clean_words' = clean_text(text)
    /\ pc' = "cleaned"
    /\ UNCHANGED <<text, fname, fin, data, processVars>>

NextClean == CleanText

SpecClean == InitClean /\ [][NextClean]_vars

(***************************************************************************)
(* load_vectors on one file, line by line.                                 *)
(***************************************************************************)
InitLoad ==
    /\ pc = "load_open"
    /\ fname \in Files
    /\ fin = <<>> /\ data = EmptyDict
    /\ IdleProcess /\ IdleClean

\* fin = io.open(fname, ...); data = {}
LoadOpen ==
    /\ pc = "load_open"
    /\ IF fname.exists
       THEN fin' = fname.lines /\ pc' = "load_loop"
       ELSE fin' = <<>> /\ pc' = "load_error"
    /\ data' = EmptyDict
    /\ UNCHANGED <<fname, text, clean_words, processVars>>

\* for line in fin: one pass of the loop body
LoadNextLine ==
    /\ pc = "load_loop" /\ fin # <<>>
    /\ IF LineParses(Head(fin))
       THEN data' = LoadLine(data, Head(fin)) /\ pc' = "load_loop"
       ELSE data' = data /\ pc' = "load_error"
    /\ fin' = Tail(fin)
    /\ UNCHANGED <<fname, text, clean_words, processVars>>

\* return data
LoadReturn ==
    /\ pc = "load_loop" /\ fin = <<>>
    /\ pc' = "load_done"
    /\ UNCHANGED <<fname, fin, data, text, clean_words, processVars>>

NextLoad == LoadOpen \/ LoadNextLine \/ LoadReturn

SpecLoad == InitLoad /\ [][NextLoad]_vars

(***************************************************************************)
(* nn_vectorization: the vocabulary.                                       *)
(***************************************************************************)
\* np.random.uniform(low=-1, high=1): the values a draw may give
UniformDraws == {-1, 0}

\* a draw of size (embedding_dim,); the model keeps the draws whose components agree
UniformVectors == {[i \in 1..EmbeddingDim |-> u] : u \in UniformDraws}

\* embedding_matrix[idx] = v broadcasts a vector of one component and raises
\* ValueError on any other length than embedding_dim
RowFits(v) == Len(v) = EmbeddingDim \/ Len(v) = 1

RowOf(v) == IF Len(v) = EmbeddingDim THEN v ELSE [i \in 1..EmbeddingDim |-> v[1]]

\* the index a later duplicate of a word leaves in word2ind: the last one
LastIndex(vocabs, n, w) ==
    CHOOSE i \in 1..n : vocabs[i] = w /\ \A j \in (i + 1)..n : vocabs[j] # w

\* for idx, word in enumerate(vocabs), the first n passes (the n-th may have
\* raised at its last statement)
FillWord2ind(vocabs, n) ==
    [w \in {vocabs[i] : i \in 1..n} |-> LastIndex(vocabs, n, w) - 1]

FillInd2word(vocabs, n) == [i \in 0..(n - 1) |-> vocabs[i + 1]]

FillMatrix(vocabs, n, w2e) ==
    [i \in 0..(Len(vocabs) - 1) |->
        IF i < n /\ RowFits(w2e[vocabs[i + 1]]) THEN RowOf(w2e[vocabs[i + 1]])
        ELSE [k \in 1..EmbeddingDim |-> 0]]

\* the passes of the loop that run: all of them, or up to the first row that
\* does not fit
Passes(vocabs, w2e) ==
    IF \A i \in 1..Len(vocabs) : RowFits(w2e[vocabs[i]]) THEN Len(vocabs)
    ELSE CHOOSE i \in 1..Len(vocabs) :
            /\ ~RowFits(w2e[vocabs[i]])
            /\ \A j \in 1..(i - 1) : RowFits(w2e[vocabs[j]])

\* word2embedding[token] = np.random.uniform(...) for both special tokens
WithSpecial(val, rpad, runk) ==
    [w \in DOMAIN val \cup {PAD, UNK} |->
        IF w = UNK THEN runk ELSE IF w = PAD THEN rpad ELSE val[w]]

\* lines 119-132
BuildVocabPretrained ==
    /\ pc = "start"
    /\ config.input_convertor = "nn_vectorization"
    /\ config.pretrained_embedding.set
    /\ LET word2embedding == load_vectors(config.pretrained_embedding.file)
           vocabs == specialtokens \o word2embedding.keys
       IN  IF ~word2embedding.ok
           THEN /\ pc' = "error"
                /\ UNCHANGED vocabVars
           ELSE \E rpad \in UniformVectors, runk \in UniformVectors :
                  LET w2e == WithSpecial(word2embedding.val, rpad, runk)
                      n == Passes(vocabs, w2e)
                  IN  /\ word2ind' = FillWord2ind(vocabs, n)
                      /\ ind2word' = FillInd2word(vocabs, n)
                      /\ embedding_matrix' = FillMatrix(vocabs, n, w2e)
                      /\ pc' = IF \A i \in 1..Len(vocabs) : RowFits(w2e[vocabs[i]])
                               THEN "encode_train" ELSE "error"
    /\ UNCHANGED <<inputVars, idsVars, sklearnVars, ret, otherVars>>

\* addword without its "if word in word2ind: return"
addwordNoCheck(v, word) ==
    LET n == Cardinality(DOMAIN v.word2ind)
        i2w == [i \in DOMAIN v.ind2word \cup {n} |->
                   IF i = n THEN word ELSE v.ind2word[i]]
    IN  [ind2word |-> i2w,
         word2ind |-> [w \in DOMAIN v.word2ind \cup {word} |->
                          IF w = word THEN n ELSE v.word2ind[w]]]

\* addword(word2ind, ind2word, word), on the pair of dicts
addword(v, word) ==
    IF word \in DOMAIN v.word2ind THEN v
    ELSE LET n == Cardinality(DOMAIN v.word2ind)
         IN  [ind2word |-> [i \in DOMAIN v.ind2word \cup {n} |->
                               IF i = n THEN word ELSE v.ind2word[i]],
              word2ind |-> [w \in DOMAIN v.word2ind \cup {word} |->
                               IF w = word THEN n ELSE v.word2ind[w]]]

RECURSIVE AddWords(_, _)
AddWords(v, words) ==
    IF words = <<>> THEN v ELSE AddWords(addword(v, Head(words)), Tail(words))

RECURSIVE AddSentences(_, _)
AddSentences(v, sents) ==
    IF sents = <<>> THEN v
    ELSE AddSentences(AddWords(v, Head(sents)), Tail(sents))

\* lines 133-145
BuildVocabTrain ==
    /\ pc = "start"
    /\ config.input_convertor = "nn_vectorization"
    /\ ~config.pretrained_embedding.set
    /\ LET v == AddSentences(AddWords([word2ind |-> EmptyFun, ind2word |-> EmptyFun],
                                      specialtokens), train_x)
       IN  /\ word2ind' = v.word2ind
           /\ ind2word' = v.ind2word
    /\ pc' = "encode_train"
    /\ UNCHANGED <<inputVars, embedding_matrix, idsVars, sklearnVars, ret, otherVars>>

(***************************************************************************)
(* nn_vectorization: encoding and padding.                                 *)
(***************************************************************************)
\* an unknown token given a fresh index instead of the index of '<unk>'
IndSentFresh(w2i, sent) ==
    [i \in DOMAIN sent |-> Get(w2i, sent[i], Cardinality(DOMAIN w2i))]

\* [self.word2ind.get(i, self.word2ind['<unk>']) for i in sent]
IndSent(w2i, sent) == [i \in DOMAIN sent |-> Get(w2i, sent[i], w2i[UNK])]

EncodeAll(w2i, x) == [r \in DOMAIN x |-> IndSent(w2i, x[r])]

\* lines 147-153
EncodeTrain ==
    /\ pc = "encode_train"
    /\ train_x_ids' = EncodeAll(word2ind, train_x)
    /\ pc' = "encode_validate"
    /\ UNCHANGED <<inputVars, vocabVars, validate_x_ids, test_x_ids, sklearnVars, ret, otherVars>>

\* the validation split fitted like the training split before it is encoded
EncodeValidateRefit ==
    /\ pc = "encode_validate"
    /\ LET v == AddSentences([word2ind |-> word2ind, ind2word |-> ind2word], validate_x)
       IN  /\ word2ind' = v.word2ind
           /\ ind2word' = v.ind2word
           /\ validate_x_ids' = EncodeAll(v.word2ind, validate_x)
    /\ pc' = "encode_test"
    /\ UNCHANGED <<inputVars, embedding_matrix, train_x_ids, test_x_ids, sklearnVars,
                   ret, otherVars>>

\* lines 155-160
EncodeValidate ==
    /\ pc = "encode_validate"
    /\ validate_x_ids' = EncodeAll(word2ind, validate_x)
    /\ pc' = "encode_test"
    /\ UNCHANGED <<inputVars, vocabVars, train_x_ids, test_x_ids, sklearnVars, ret, otherVars>>

\* lines 162-167
EncodeTest ==
    /\ pc = "encode_test"
    /\ test_x_ids' = EncodeAll(word2ind, test_x)
    /\ pc' = "pad"
    /\ UNCHANGED <<inputVars, vocabVars, train_x_ids, validate_x_ids, sklearnVars, ret, otherVars>>

\* pad_sequences with padding left at its default 'pre'
PadRowPre(s, maxlen, value) ==
    LET trunc == IF Len(s) > maxlen THEN SubSeq(s, Len(s) - maxlen + 1, Len(s)) ELSE s
    IN  [i \in 1..maxlen |->
            IF i <= maxlen - Len(trunc) THEN value ELSE trunc[i - (maxlen - Len(trunc))]]

\* pad_sequences with truncating='post'
PadRowTruncPost(s, maxlen, value) ==
    LET trunc == IF Len(s) > maxlen THEN SubSeq(s, 1, maxlen) ELSE s
    IN  [i \in 1..maxlen |-> IF i <= Len(trunc) THEN trunc[i] ELSE value]

\* keras pad_sequences(.., maxlen, padding='post', value) with its default
\* truncating='pre': trunc = s[-maxlen:], then x[idx, :len(trunc)] = trunc
PadRow(s, maxlen, value) ==
    LET trunc == IF Len(s) > maxlen THEN SubSeq(s, Len(s) - maxlen + 1, Len(s)) ELSE s
    IN  [i \in 1..maxlen |-> IF i <= Len(trunc) THEN trunc[i] ELSE value]

pad_sequences(seqs, maxlen, value) == [r \in DOMAIN seqs |-> PadRow(seqs[r], maxlen, value)]

\* lines 169-173, and the return of process
PadAndReturn ==
    /\ pc = "pad"
    /\ train_x_ids' = pad_sequences(train_x_ids, config.maxlen, word2ind[PAD])
    /\ validate_x_ids' = pad_sequences(validate_x_ids, config.maxlen, word2ind[PAD])
    /\ test_x_ids' = pad_sequences(test_x_ids, config.maxlen, word2ind[PAD])
    /\ ret' = [kind |-> "arrays",
               features |-> <<train_x_ids', validate_x_ids', test_x_ids'>>]
    /\ pc' = "done"
    /\ UNCHANGED <<inputVars, vocabVars, sklearnVars, otherVars>>

(***************************************************************************)
(* count_vectorization and tfidf_vectorization.                            *)
(***************************************************************************)
Tokens(x) == UNION {Range(x[r]) : r \in DOMAIN x}

\* the vectorizer's vocabulary_: the terms of the fitted documents, numbered
\* from 0 in sorted order
FitVocabulary(x) ==
    [t \in Tokens(x) |-> Cardinality({u \in Tokens(x) : StrLess(u, t)})]

Count(doc, voc, c) == Cardinality({i \in DOMAIN doc : Get(voc, doc[i], -1) = c})

\* one row of transform: per column the occurrences of its term; a token
\* outside vocabulary_ is skipped
CountRow(voc, doc) ==
    [c \in 1..Cardinality(DOMAIN voc) |-> Count(doc, voc, c - 1)]

\* fit_transform where transform is meant: each split gets its own vocabulary
CountTransformRefit(voc, x) ==
    [r \in DOMAIN x |-> CountRow(FitVocabulary(x), x[r])]

CountTransform(voc, x) == [r \in DOMAIN x |-> CountRow(voc, x[r])]

\* idf_ of the fitted documents; log((1 + n) / (1 + df)) + 1 is kept as the
\* pair <<1 + n, 1 + df>>
FitIdf(voc, x) ==
    [c \in 1..Cardinality(DOMAIN voc) |->
        <<1 + Len(x), 1 + Cardinality({r \in DOMAIN x : Count(x[r], voc, c - 1) > 0})>>]

\* one row of the tf-idf transform: the weight tf * idf (normalised over the
\* row) is kept as the pair of its factors
TfidfTransform(voc, idf, x) ==
    [r \in DOMAIN x |->
        [c \in 1..Cardinality(DOMAIN voc) |->
            [tf |-> Count(x[r], voc, c - 1), idf |-> idf[c]]]]

\* lines 97-98: fit_transform raises ValueError on an empty vocabulary
CountFitTransform ==
    /\ pc = "start"
    /\ config.input_convertor = "count_vectorization"
    /\ IF Tokens(train_x) = {}
       THEN pc' = "error" /\ UNCHANGED <<vectorizer, vectorized_train_x>>
       ELSE /\ vectorizer' = [kind |-> "count", vocabulary_ |-> FitVocabulary(train_x),
                              idf_ |-> <<>>]
            /\ vectorized_train_x' = CountTransform(FitVocabulary(train_x), train_x)
            /\ pc' = "count_validate"
    /\ UNCHANGED <<inputVars, vocabVars, idsVars, vectorized_validate_x,
                   vectorized_test_x, ret, otherVars>>

\* line 99
CountTransformValidate ==
    /\ pc = "count_validate"
    /\ vectorized_validate_x' = CountTransform(vectorizer.vocabulary_, validate_x)
    /\ pc' = "count_test"
    /\ UNCHANGED <<inputVars, vocabVars, idsVars, vectorizer, vectorized_train_x,
                   vectorized_test_x, ret, otherVars>>

\* lines 100-101, and the return of process
CountTransformTest ==
    /\ pc = "count_test"
    /\ vectorized_test_x' = CountTransform(vectorizer.vocabulary_, test_x)
    /\ ret' = [kind |-> "arrays",
               features |-> <<vectorized_train_x, vectorized_validate_x,
                              vectorized_test_x'>>]
    /\ pc' = "done"
    /\ UNCHANGED <<inputVars, vocabVars, idsVars, vectorizer, vectorized_train_x,
                   vectorized_validate_x, otherVars>>

\* lines 104-105
TfidfFitTransform ==
    /\ pc = "start"
    /\ config.input_convertor = "tfidf_vectorization"
    /\ IF Tokens(train_x) = {}
       THEN pc' = "error" /\ UNCHANGED <<vectorizer, vectorized_train_x>>
       ELSE LET voc == FitVocabulary(train_x)
            IN  /\ vectorizer' = [kind |-> "tfidf", vocabulary_ |-> voc,
                                  idf_ |-> FitIdf(voc, train_x)]
                /\ vectorized_train_x' = TfidfTransform(voc, FitIdf(voc, train_x), train_x)
                /\ pc' = "tfidf_validate"
    /\ UNCHANGED <<inputVars, vocabVars, idsVars, vectorized_validate_x,
                   vectorized_test_x, ret, otherVars>>

\* line 106
TfidfTransformValidate ==
    /\ pc = "tfidf_validate"
    /\ vectorized_validate_x' =
           TfidfTransform(vectorizer.vocabulary_, vectorizer.idf_, validate_x)
    /\ pc' = "tfidf_test"
    /\ UNCHANGED <<inputVars, vocabVars, idsVars, vectorizer, vectorized_train_x,
                   vectorized_test_x, ret, otherVars>>

\* lines 107-108, and the return of process
TfidfTransformTest ==
    /\ pc = "tfidf_test"
    /\ vectorized_test_x' =
           TfidfTransform(vectorizer.vocabulary_, vectorizer.idf_, test_x)
    /\ ret' = [kind |-> "arrays",
               features |-> <<vectorized_train_x, vectorized_validate_x,
                              vectorized_test_x'>>]
    /\ pc' = "done"
    /\ UNCHANGED <<inputVars, vocabVars, idsVars, vectorizer, vectorized_train_x,
                   vectorized_validate_x, otherVars>>

(***************************************************************************)
(* tf_dataset.                                                             *)
(***************************************************************************)
\* Dataset.batch(batch_size): consecutive batches, the last one may be short
RECURSIVE Batch(_, _)
Batch(xs, b) ==
    IF xs = <<>> THEN <<>>
    ELSE IF Len(xs) <= b THEN <<xs>>
    ELSE <<SubSeq(xs, 1, b)>> \o Batch(SubSeq(xs, b + 1, Len(xs)), b)

\* tf_dataset(x, y): the slices of x, each with its label when y is given
\* (the label arrays themselves are not modelled), batched
tf_dataset(x, labelled) ==
    Batch([i \in DOMAIN x |-> [x |-> x[i], y |-> labelled]], BatchSize)

\* lines 85-90: process returns train_ds, validate_ds, validate_x_ds,
\* validate_y, test_x_ds
ProcessTfDataset ==
    /\ pc = "start"
    /\ config.input_convertor = "tf_dataset"
    /\ ret' = [kind |-> "datasets",
               features |-> <<tf_dataset(train_x, TRUE), tf_dataset(validate_x, TRUE),
                              tf_dataset(validate_x, FALSE), tf_dataset(test_x, FALSE)>>]
    /\ pc' = "done"
    /\ UNCHANGED <<inputVars, vocabVars, idsVars, sklearnVars, otherVars>>

(***************************************************************************)
(* process.                                                                *)
(***************************************************************************)
Init ==
    /\ pc = "start"
    /\ config \in Configs
    /\ \E c \in Corpora :
          train_x = c.train_x /\ validate_x = c.validate_x /\ test_x = c.test_x
    /\ word2ind = EmptyFun /\ ind2word = EmptyFun /\ embedding_matrix = EmptyFun
    /\ train_x_ids = <<>> /\ validate_x_ids = <<>> /\ test_x_ids = <<>>
    /\ vectorizer = NoVectorizer
    /\ vectorized_train_x = <<>> /\ vectorized_validate_x = <<>>
    /\ vectorized_test_x = <<>>
    /\ ret = NoReturn
    /\ IdleClean /\ IdleLoad

Next ==
    \/ BuildVocabPretrained
    \/ BuildVocabTrain
    \/ EncodeTrain
    \/ EncodeValidate
    \/ EncodeTest
    \/ PadAndReturn
    \/ CountFitTransform
    \/ CountTransformValidate
    \/ CountTransformTest
    \/ TfidfFitTransform
    \/ TfidfTransformValidate
    \/ TfidfTransformTest
    \/ ProcessTfDataset

Spec == Init /\ [][Next]_vars

(***************************************************************************)
(* Properties.                                                             *)
(***************************************************************************)
NN == config.input_convertor = "nn_vectorization"

\* nn_vectorization has built its vocabulary
VocabBuilt ==
    NN /\ pc \in {"encode_train", "encode_validate", "encode_test", "pad", "done"}

\* nn_vectorization has returned
NNReturned == NN /\ pc = "done"

\* the id a token stands for: its own index, or the index of '<unk>'
IdOf(w) == IF w \in DOMAIN word2ind THEN word2ind[w] ELSE word2ind[UNK]

\* the three splits with the arrays returned for them
Splits == {<<train_x, train_x_ids>>, <<validate_x, validate_x_ids>>,
           <<test_x, test_x_ids>>}

\* tokens of validate_x or test_x that train_x does not hold
HeldOutOnly == (Tokens(validate_x) \cup Tokens(test_x)) \ Tokens(train_x)

\* C1: after nn_vectorization word2ind and ind2word are mutually inverse and
\* the reserved tokens have the first indices, '<pad>' 0 and '<unk>' 1
VocabularyBijective ==
    NNReturned =>
        /\ \A w \in DOMAIN word2ind :
              word2ind[w] \in DOMAIN ind2word /\ ind2word[word2ind[w]] = w
        /\ \A i \in DOMAIN ind2word :
              ind2word[i] \in DOMAIN word2ind /\ word2ind[ind2word[i]] = i
        /\ word2ind[PAD] = 0
        /\ word2ind[UNK] = 1

\* C2, as claimed: once a vectorization has returned, a token that occurs
\* only in validate_x or test_x has no entry in the fitted vocabulary
HeldOutTokensNeverEntered ==
    pc = "done" =>
        /\ HeldOutOnly \cap DOMAIN word2ind = {}
        /\ HeldOutOnly \cap DOMAIN vectorizer.vocabulary_ = {}

\* where a held-out token may have an entry: nowhere when the vocabulary is
\* fitted on train_x, and in the pretrained mode exactly when the file lists it
HeldOutEntries ==
    /\ HeldOutOnly \cap DOMAIN vectorizer.vocabulary_ = {}
    /\ IF config.pretrained_embedding.set
       THEN \A t \in HeldOutOnly :
               t \in DOMAIN word2ind
                   <=> t \in DOMAIN load_vectors(config.pretrained_embedding.file).val
       ELSE HeldOutOnly \cap DOMAIN word2ind = {}

Encoding ==
    pc \in {"encode_train", "encode_validate", "encode_test", "pad",
            "count_validate", "count_test", "tfidf_validate", "tfidf_test"}

\* C2, amended: once fitted, the vocabulary, the embedding matrix and the
\* vectorizer stay as they are while the splits are encoded, and when the
\* call returns a held-out token has an entry only if the pretrained file
\* lists it (the entries are those before the returning step, which by the
\* first conjunct changes none)
VocabularyFrame ==
    [][/\ Encoding => UNCHANGED <<word2ind, ind2word, embedding_matrix, vectorizer>>
       /\ pc' = "done" => HeldOutEntries]_vars

VocabularyFrameWitness ==
    /\ NNReturned
    /\ config.pretrained_embedding.set
    /\ \E t \in HeldOutOnly : t \in DOMAIN word2ind
    /\ \E t \in HeldOutOnly : t \notin DOMAIN word2ind

\* a split encoded token by token
Encoded(x, ids) ==
    /\ Len(ids) = Len(x)
    /\ \A r \in DOMAIN x :
          /\ Len(ids[r]) = Len(x[r])
          /\ \A i \in DOMAIN x[r] :
                /\ ids[r][i] \in DOMAIN ind2word
                /\ x[r][i] \in DOMAIN word2ind => ids[r][i] = word2ind[x[r][i]]
                /\ x[r][i] \notin DOMAIN word2ind => ids[r][i] = word2ind[UNK]

\* C3: every id of an encoded sentence is a key of ind2word: the token's own
\* index when the vocabulary holds it, the index of '<unk>' when not; the
\* ids of the returned rows are keys of ind2word too
EncodedIdsValid ==
    /\ NN /\ pc \in {"encode_validate", "encode_test", "pad"}
          => Encoded(train_x, train_x_ids)
    /\ NN /\ pc \in {"encode_test", "pad"} => Encoded(validate_x, validate_x_ids)
    /\ NN /\ pc = "pad" => Encoded(test_x, test_x_ids)
    /\ NNReturned =>
          \A sp \in Splits : \A r \in DOMAIN sp[2] : \A i \in DOMAIN sp[2][r] :
              sp[2][r][i] \in DOMAIN ind2word

EncodedIdsValidWitness ==
    /\ NN /\ pc = "pad"
    /\ \E i \in DOMAIN validate_x[1] : validate_x[1][i] \notin DOMAIN word2ind
    /\ \E i \in DOMAIN test_x[1] : test_x[1][i] \in DOMAIN word2ind

\* C4: every returned row has length maxlen, and the row of a sentence
\* shorter than maxlen is its ids in order, then only the index of '<pad>'
RowsPaddedRight ==
    NNReturned =>
        \A sp \in Splits :
            /\ Len(sp[2]) = Len(sp[1])
            /\ \A r \in DOMAIN sp[1] :
                  /\ Len(sp[2][r]) = config.maxlen
                  /\ Len(sp[1][r]) < config.maxlen =>
                        \A i \in 1..config.maxlen :
                            sp[2][r][i] = IF i <= Len(sp[1][r]) THEN IdOf(sp[1][r][i])
                                          ELSE word2ind[PAD]

RowsPaddedRightWitness ==
    /\ NNReturned
    /\ Len(validate_x[1]) = 1 /\ config.maxlen = 2
    /\ Len(test_x[1]) = 0

\* C5, as claimed: the row of a sentence longer than maxlen is the ids of
\* its first maxlen tokens
TruncatesOnRight ==
    NNReturned =>
        \A sp \in Splits : \A r \in DOMAIN sp[1] :
            Len(sp[1][r]) > config.maxlen =>
                \A i \in 1..config.maxlen : sp[2][r][i] = IdOf(sp[1][r][i])

\* C5, amended: the row of a sentence longer than maxlen is the ids of its
\* last maxlen tokens, in order: the leading tokens are dropped
TruncatesOnLeft ==
    NNReturned =>
        \A sp \in Splits : \A r \in DOMAIN sp[1] :
            Len(sp[1][r]) > config.maxlen =>
                /\ Len(sp[2][r]) = config.maxlen
                /\ \A i \in 1..config.maxlen :
                      sp[2][r][i] = IdOf(sp[1][r][Len(sp[1][r]) - config.maxlen + i])

TruncatesOnLeftWitness ==
    /\ NNReturned
    /\ Len(train_x[1]) > config.maxlen
    /\ IdOf(train_x[1][1]) # IdOf(train_x[1][Len(train_x[1])])

\* C6: in the pretrained mode every word of the file has an entry whose row
\* is the file's vector, the vocabulary has 2 + (distinct file words) entries
\* with the reserved tokens first, and only their two rows are drawn
PretrainedRowsLoaded ==
    NNReturned /\ config.pretrained_embedding.set =>
        LET loaded == load_vectors(config.pretrained_embedding.file).val
        IN  /\ \A w \in DOMAIN loaded :
                  w \in DOMAIN word2ind /\ embedding_matrix[word2ind[w]] = loaded[w]
            /\ Cardinality(DOMAIN word2ind) = 2 + Cardinality(DOMAIN loaded)
            /\ ind2word[0] = PAD /\ ind2word[1] = UNK
            /\ \A i \in DOMAIN ind2word \ {0, 1} :
                  embedding_matrix[i] = loaded[ind2word[i]]

RECURSIVE Flatten(_)
Flatten(x) == IF x = <<>> THEN <<>> ELSE Head(x) \o Flatten(Tail(x))

\* the distinct tokens of a token list, each at its first occurrence
RECURSIVE FirstSeen(_)
FirstSeen(s) ==
    IF s = <<>> THEN <<>>
    ELSE LET init == SubSeq(s, 1, Len(s) - 1)
         IN  IF s[Len(s)] \in Range(init) THEN FirstSeen(init)
             ELSE Append(FirstSeen(init), s[Len(s)])

\* C7: without a pretrained embedding the indices are 0..n-1 with
\* n = 2 + (distinct tokens of train_x), and the k-th distinct token of
\* train_x in reading order has index k + 1, however often it recurs
FirstSeenOrder ==
    VocabBuilt /\ ~config.pretrained_embedding.set =>
        LET seen == FirstSeen(Flatten(train_x))
            n == 2 + Cardinality(Tokens(train_x))
        IN  /\ DOMAIN ind2word = 0..(n - 1)
            /\ DOMAIN word2ind = {PAD, UNK} \cup Tokens(train_x)
            /\ {word2ind[w] : w \in DOMAIN word2ind} = 0..(n - 1)
            /\ \A k \in DOMAIN seen :
                  word2ind[seen[k]] = k + 1 /\ ind2word[k + 1] = seen[k]

FirstSeenOrderWitness ==
    /\ VocabBuilt /\ ~config.pretrained_embedding.set
    /\ Len(train_x) = 2
    /\ Cardinality(Tokens(train_x)) = 2
    /\ Len(Flatten(train_x)) > 2

\* rows and feature width of a returned array
Rows(m) == Len(m)

SameWidth(ms) ==
    \E w \in 0..(MaxTokens + MaxSeqLen) :
        \A k \in DOMAIN ms : \A r \in DOMAIN ms[k] : Len(ms[k][r]) = w

Commensurate ==
    /\ Len(ret.features) = 3
    /\ Rows(ret.features[1]) = Len(train_x)
    /\ Rows(ret.features[2]) = Len(validate_x)
    /\ Rows(ret.features[3]) = Len(test_x)
    /\ SameWidth(ret.features)

\* C8, as claimed: whichever of the four convertors is selected, process
\* yields three feature results, each with the rows of its split and all of
\* one width
ThreeCommensurateResults == pc = "done" => Commensurate

\* C8, amended: count_vectorization, tfidf_vectorization and
\* nn_vectorization yield three arrays, each with the rows of its split and
\* all of one width; tf_dataset yields four batched datasets instead
ThreeCommensurateArrays ==
    pc = "done" =>
        IF config.input_convertor = "tf_dataset"
        THEN ret.kind = "datasets" /\ Len(ret.features) = 4
        ELSE ret.kind = "arrays" /\ Commensurate

ThreeCommensurateArraysWitness ==
    /\ pc = "done"
    /\ config.input_convertor = "count_vectorization"
    /\ Len(train_x) = 2
    /\ HeldOutOnly # {}
    /\ Len(ret.features[1][1]) = 1

\* a line as the embedding format wants it: a word, then one or more numbers
WellFormedLine(line) ==
    LET tokens == SplitSpace(RStrip(line))
    IN  /\ Len(tokens) >= 2
        /\ tokens[1] # <<>>
        /\ \A i \in 2..Len(tokens) : IsFloat(tokens[i])

\* C9: load_vectors returns a mapping only for a file that exists and whose
\* every line is a word followed by one or more floating-point components
MalformedFileFails ==
    pc = "load_done" =>
        fname.exists /\ \A i \in DOMAIN fname.lines : WellFormedLine(fname.lines[i])

RECURSIVE NonEmpty(_)
NonEmpty(words) ==
    IF words = <<>> THEN <<>>
    ELSE (IF Head(words) = <<>> THEN <<>> ELSE <<Head(words)>>) \o NonEmpty(Tail(words))

\* the tokens the claim describes: the lowercased text split at every run of
\* whitespace or non-word characters, the punctuation taken out of each
\* piece and the empty pieces dropped
SplitTokens(t) ==
    NonEmpty([i \in DOMAIN ReSplit(Lower(t)) |->
                 Delete(ReSplit(Lower(t))[i], Punctuation)])

\* C10: clean_text returns the tokens of the lowercased text split at every
\* run of whitespace or non-word characters, a newline included, each token
\* non-empty, without uppercase letters and without punctuation
CleanTextSplitsAtWhitespace ==
    pc = "cleaned" =>
        /\ clean_words = SplitTokens(text)
        /\ \A i \in DOMAIN clean_words :
              /\ clean_words[i] # <<>>
              /\ Range(clean_words[i]) \cap (Punctuation \cup {"B"}) = {}

====
